---- MODULE Spec2Model ----
(***************************************************************************)
(* Model of the NSE stock proxy: backend/app/cache.py (TTLCache),          *)
(* backend/app/main.py + yahoo_client.py (the request handlers) and        *)
(* backend/app/nse_client.py (the session-backed quote client).            *)
(***************************************************************************)
EXTENDS Integers, Sequences, FiniteSets, TLC

\* ------------------------------------------------------------------ bounds
MaxItems == 3            \* largest max_items a cache is constructed with
MaxTtl   == 1            \* largest ttl_seconds a cache is constructed with
MaxTime  == 2            \* last clock value of the cache specification
NumTasks == 2            \* requests served, each by a task of its own
MaxQuotes == 2           \* longest "quotes" list of a search response
NumFetches == 2          \* fetch_nse_price calls, each by a task of its own

\* A Python str is the tuple of its characters; None is a tuple no str equals.
None == <<"None">>

Keys   == {<<"a">>, <<"b">>, <<"c">>}
Values == {<<"v", "1">>, <<"v", "2">>}

VARIABLES
    \* ---- cache.py: one TTLCache instance and the clock it reads
    ttl,            \* self.ttl
    max_items,      \* self.max_items
    store,          \* self._store: sequence of [key, value, ts], oldest first
    now,            \* time.time()
    lastOp,         \* the last call made and what it returned
    order           \* keys of the store in the order they entered it

cacheVars == <<ttl, max_items, store, now, lastOp, order>>
cacheVarsRest == <<ttl, max_items, store, lastOp, order>>

VARIABLES
    \* ---- main.py: the module-level caches and the requests in flight
    symbol_cache,   \* symbol_cache._store
    price_cache,    \* price_cache._store
    req,            \* per task: the request it serves and where it stands
    resp,           \* the response sent last
    searchCalls,    \* Yahoo search requests sent so far
    priceSteps,     \* requests that reached their price step so far
    quoteFetches    \* fetch_ltp calls handed to the executor so far

appVars == <<symbol_cache, price_cache, req, resp, searchCalls,
             priceSteps, quoteFetches>>

VARIABLES
    \* ---- nse_client.py: the shared session and the quote fetches in flight
    client,         \* _client: the session it holds, 0 for None
    closed,         \* sessions whose is_closed is true
    booting,        \* sessions whose homepage request is in flight
    fetch           \* per task: its fetch_nse_price call and what it did

nseVars == <<client, closed, booting, fetch>>

vars == <<cacheVars, appVars, nseVars>>

\* ------------------------------------------------------------ OrderedDict
StoreKeys(s) == {s[i].key : i \in 1..Len(s)}

Has(s, k) == k \in StoreKeys(s)

IndexOf(s, k) == CHOOSE i \in 1..Len(s) : s[i].key = k

\* OrderedDict.get(key) for a key of the store: the stored (value, ts)
Lookup(s, k) == s[IndexOf(s, k)]

\* OrderedDict.pop(key, None)
Remove(s, k) == SelectSeq(s, LAMBDA e : e.key # k)

\* OrderedDict.__setitem__: an existing key keeps its position, a new key
\* goes to the end
Assign(s, k, v, t) ==
    IF Has(s, k)
    THEN [s EXCEPT ![IndexOf(s, k)] = [key |-> k, value |-> v, ts |-> t]]
    ELSE Append(s, [key |-> k, value |-> v, ts |-> t])

\* ---------------------------------------------------------------- TTLCache
\* TTLCache.get without the pop: returns None for a stale entry but leaves
\* it in the store
CacheGetNoPurge(s, ttlSeconds, t, k) ==
    LET item == Lookup(s, k) IN
    IF ~Has(s, k)
    THEN [ret |-> None, store |-> s, purged |-> FALSE]
    ELSE IF t - item.ts > ttlSeconds
         THEN [ret |-> None, store |-> s, purged |-> FALSE]
         ELSE [ret |-> item.value, store |-> s, purged |-> FALSE]

\* TTLCache.get: [ret, store after the call, whether the entry was popped]
CacheGet(s, ttlSeconds, t, k) ==
    LET item == Lookup(s, k) IN
    IF ~Has(s, k)
    THEN [ret |-> None, store |-> s, purged |-> FALSE]
    ELSE IF t - item.ts > ttlSeconds
         THEN [ret |-> None, store |-> Remove(s, k), purged |-> TRUE]
         ELSE [ret |-> item.value, store |-> s, purged |-> FALSE]

\* TTLCache.set that evicts only above capacity (`>` for `>=`)
CacheSetLate(s, maxItems, t, k, v) ==
    LET full == Len(s) > maxItems
        kept == IF full THEN Tail(s) ELSE s
    IN  [store   |-> Assign(kept, k, v, t),
         evicted |-> IF full THEN Head(s).key ELSE None]

\* TTLCache.set that evicts the newest entry (popitem(last=True))
CacheSetLifo(s, maxItems, t, k, v) ==
    LET full == Len(s) >= maxItems
        kept == IF full THEN SubSeq(s, 1, Len(s) - 1) ELSE s
    IN  [store   |-> Assign(kept, k, v, t),
         evicted |-> IF full THEN s[Len(s)].key ELSE None]

\* TTLCache.set that evicts the entry with the smallest timestamp
CacheSetOldestTs(s, maxItems, t, k, v) ==
    LET full == Len(s) >= maxItems
        i    == CHOOSE i \in 1..Len(s) :
                    /\ \A j \in 1..Len(s) : s[i].ts <= s[j].ts
                    /\ \A j \in 1..(i - 1) : s[j].ts > s[i].ts
        kept == IF full THEN Remove(s, s[i].key) ELSE s
    IN  [store   |-> Assign(kept, k, v, t),
         evicted |-> IF full THEN s[i].key ELSE None]

\* TTLCache.set that drops the new entry
CacheSetDrop(s, maxItems, t, k, v) ==
    LET full == Len(s) >= maxItems
        kept == IF full THEN Tail(s) ELSE s
    IN  [store   |-> kept,
         evicted |-> IF full THEN Head(s).key ELSE None]

\* TTLCache.set: [store after the call, key popped by popitem(last=False)]
CacheSet(s, maxItems, t, k, v) ==
    LET full == Len(s) >= maxItems
        kept == IF full THEN Tail(s) ELSE s
    IN  [store   |-> Assign(kept, k, v, t),
         evicted |-> IF full THEN Head(s).key ELSE None]

\* no call made on the cache yet
NoOp == [op |-> "init", key |-> None, value |-> None, ret |-> None,
         evicted |-> None, purged |-> FALSE]

\* ------------------------------------------------------------ str methods
UpperAlphabet == <<"A", "B", "C", "D", "E", "F", "G", "H", "I", "J", "K", "L",
                   "M", "N", "O", "P", "Q", "R", "S", "T", "U", "V", "W", "X",
                   "Y", "Z">>
LowerAlphabet == <<"a", "b", "c", "d", "e", "f", "g", "h", "i", "j", "k", "l",
                   "m", "n", "o", "p", "q", "r", "s", "t", "u", "v", "w", "x",
                   "y", "z">>
Whitespace == {" ", "\t", "\n"}

LowerChar(c) ==
    IF \E i \in 1..26 : UpperAlphabet[i] = c
    THEN LowerAlphabet[CHOOSE i \in 1..26 : UpperAlphabet[i] = c] ELSE c

UpperChar(c) ==
    IF \E i \in 1..26 : LowerAlphabet[i] = c
    THEN UpperAlphabet[CHOOSE i \in 1..26 : LowerAlphabet[i] = c] ELSE c

\* str.lower, str.upper
Lower(s) == [i \in 1..Len(s) |-> LowerChar(s[i])]
Upper(s) == [i \in 1..Len(s) |-> UpperChar(s[i])]

\* str.strip
Strip(s) ==
    LET solid == {i \in 1..Len(s) : s[i] \notin Whitespace} IN
    IF solid = {} THEN << >>
    ELSE SubSeq(s, CHOOSE i \in solid : \A j \in solid : i <= j,
                   CHOOSE i \in solid : \A j \in solid : i >= j)

\* str.endswith
EndsWith(s, suffix) ==
    /\ Len(s) >= Len(suffix)
    /\ SubSeq(s, Len(s) - Len(suffix) + 1, Len(s)) = suffix

\* truth value of a str or None
Truthy(x) == x # None /\ x # << >>

\* ------------------------------------------- nse_client.py: the alias table
AliasPairs ==
    { <<<<"t", "c", "s">>,
        <<"T", "C", "S">>>>,
      <<<<"t", "a", "t", "a", " ", "c", "o", "n", "s", "u", "l", "t", "a", "n", "c", "y">>,
        <<"T", "C", "S">>>>,
      <<<<"t", "a", "t", "a", " ", "c", "o", "n", "s", "u", "l", "t", "a", "n", "c", "y", " ", "s", "e", "r", "v", "i", "c", "e", "s">>,
        <<"T", "C", "S">>>>,
      <<<<"i", "n", "f", "o", "s", "y", "s">>,
        <<"I", "N", "F", "Y">>>>,
      <<<<"i", "n", "f", "y">>,
        <<"I", "N", "F", "Y">>>>,
      <<<<"r", "e", "l", "i", "a", "n", "c", "e">>,
        <<"R", "E", "L", "I", "A", "N", "C", "E">>>>,
      <<<<"r", "e", "l", "i", "a", "n", "c", "e", " ", "i", "n", "d", "u", "s", "t", "r", "i", "e", "s">>,
        <<"R", "E", "L", "I", "A", "N", "C", "E">>>>,
      <<<<"h", "d", "f", "c", " ", "b", "a", "n", "k">>,
        <<"H", "D", "F", "C", "B", "A", "N", "K">>>>,
      <<<<"h", "d", "f", "c", "b", "a", "n", "k">>,
        <<"H", "D", "F", "C", "B", "A", "N", "K">>>>,
      <<<<"i", "c", "i", "c", "i", " ", "b", "a", "n", "k">>,
        <<"I", "C", "I", "C", "I", "B", "A", "N", "K">>>>,
      <<<<"i", "c", "i", "c", "i", "b", "a", "n", "k">>,
        <<"I", "C", "I", "C", "I", "B", "A", "N", "K">>>>,
      <<<<"i", "t", "c">>,
        <<"I", "T", "C">>>>,
      <<<<"i", "t", "c", " ", "l", "i", "m", "i", "t", "e", "d">>,
        <<"I", "T", "C">>>>,
      <<<<"s", "b", "i">>,
        <<"S", "B", "I", "N">>>>,
      <<<<"s", "t", "a", "t", "e", " ", "b", "a", "n", "k">>,
        <<"S", "B", "I", "N">>>>,
      <<<<"s", "t", "a", "t", "e", " ", "b", "a", "n", "k", " ", "o", "f", " ", "i", "n", "d", "i", "a">>,
        <<"S", "B", "I", "N">>>>,
      <<<<"k", "o", "t", "a", "k">>,
        <<"K", "O", "T", "A", "K", "B", "A", "N", "K">>>>,
      <<<<"k", "o", "t", "a", "k", " ", "b", "a", "n", "k">>,
        <<"K", "O", "T", "A", "K", "B", "A", "N", "K">>>>,
      <<<<"b", "h", "a", "r", "t", "i", " ", "a", "i", "r", "t", "e", "l">>,
        <<"B", "H", "A", "R", "T", "I", "A", "R", "T", "L">>>>,
      <<<<"a", "i", "r", "t", "e", "l">>,
        <<"B", "H", "A", "R", "T", "I", "A", "R", "T", "L">>>>,
      <<<<"l", "a", "r", "s", "e", "n">>,
        <<"L", "T">>>>,
      <<<<"l", "&", "t">>,
        <<"L", "T">>>>,
      <<<<"l", "a", "r", "s", "e", "n", " ", "t", "o", "u", "b", "r", "o">>,
        <<"L", "T">>>>,
      <<<<"a", "s", "t", "r", "a", "l">>,
        <<"A", "S", "T", "R", "A", "L">>>>,
      <<<<"a", "s", "t", "r", "a", "l", " ", "l", "i", "m", "i", "t", "e", "d">>,
        <<"A", "S", "T", "R", "A", "L">>>>,
      <<<<"l", "a", "u", "r", "u", "s", " ", "l", "a", "b", "s">>,
        <<"L", "A", "U", "R", "U", "S", "L", "A", "B", "S">>>>,
      <<<<"l", "a", "u", "r", "u", "s", "l", "a", "b", "s">>,
        <<"L", "A", "U", "R", "U", "S", "L", "A", "B", "S">>>>,
      <<<<"w", "i", "p", "r", "o">>,
        <<"W", "I", "P", "R", "O">>>>,
      <<<<"m", "a", "r", "u", "t", "i">>,
        <<"M", "A", "R", "U", "T", "I">>>>,
      <<<<"m", "a", "r", "u", "t", "i", " ", "s", "u", "z", "u", "k", "i">>,
        <<"M", "A", "R", "U", "T", "I">>>>,
      <<<<"a", "s", "i", "a", "n", " ", "p", "a", "i", "n", "t", "s">>,
        <<"A", "S", "I", "A", "N", "P", "A", "I", "N", "T">>>>,
      <<<<"a", "s", "i", "a", "n", "p", "a", "i", "n", "t">>,
        <<"A", "S", "I", "A", "N", "P", "A", "I", "N", "T">>>>,
      <<<<"t", "i", "t", "a", "n">>,
        <<"T", "I", "T", "A", "N">>>>,
      <<<<"h", "i", "n", "d", "u", "s", "t", "a", "n", " ", "u", "n", "i", "l", "e", "v", "e", "r">>,
        <<"H", "I", "N", "D", "U", "N", "I", "L", "V", "R">>>>,
      <<<<"h", "u", "l">>,
        <<"H", "I", "N", "D", "U", "N", "I", "L", "V", "R">>>> }
COMMON_NAMES_TO_SYMBOL ==
    [k \in {p[1] : p \in AliasPairs} |->
        (CHOOSE p \in AliasPairs : p[1] = k)[2]]

resolve_symbol_locally(query) ==
    LET normalized == Lower(Strip(query)) IN
    IF normalized \in DOMAIN COMMON_NAMES_TO_SYMBOL
    THEN COMMON_NAMES_TO_SYMBOL[normalized] ELSE None

\* ------------------------------------------------ yahoo_client.py: search
DotNS == <<".", "N", "S">>

\* the candidates a search response is made of; a candidate without a
\* "symbol" key reads as the empty string
Quotes ==
    { [exchange |-> "NSI", quoteType |-> "EQUITY", symbol |-> <<"T", ".", "N", "S">>],
      [exchange |-> "BSE", quoteType |-> "EQUITY", symbol |-> <<"B", ".", "N", "S">>],
      [exchange |-> "NSI", quoteType |-> "ETF",    symbol |-> <<"E", ".", "N", "S">>],
      [exchange |-> "NSI", quoteType |-> "EQUITY", symbol |-> << >>] }

QuoteLists == UNION {[1..n -> Quotes] : n \in 0..MaxQuotes}

\* what the search request ends with: a transport error or a bad body, a
\* status other than 200, or a 200 with a list of candidates
SearchOutcomes ==
    {[kind |-> "error", quotes |-> << >>], [kind |-> "status", quotes |-> << >>]}
    \cup {[kind |-> "ok", quotes |-> q] : q \in QuoteLists}

\* search_nse_symbol without the exchange test
SearchAnyExchange(out) ==
    LET hits == {i \in 1..Len(out.quotes) :
                    /\ out.quotes[i].quoteType = "EQUITY"
                    /\ EndsWith(out.quotes[i].symbol, DotNS)}
    IN  IF out.kind # "ok" \/ hits = {} THEN None
        ELSE out.quotes[CHOOSE i \in hits : \A j \in hits : i <= j].symbol

\* yahoo_client.search_nse_symbol: the symbol of the first candidate that
\* passes the three tests, or None
search_nse_symbol(out) ==
    LET hits == {i \in 1..Len(out.quotes) :
                    /\ out.quotes[i].exchange = "NSI"
                    /\ out.quotes[i].quoteType = "EQUITY"
                    /\ EndsWith(out.quotes[i].symbol, DotNS)}
    IN  IF out.kind # "ok" \/ hits = {} THEN None
        ELSE out.quotes[CHOOSE i \in hits : \A j \in hits : i <= j].symbol

\* ------------------------------------------------- yahoo_client.py: price
\* float | None
NoneF == [some |-> FALSE, value |-> 0]
Float(x) == [some |-> TRUE, value |-> x]

\* what yfinance hands back: fast_info.last_price, the closes of
\* history(period="1d"), and whether a call raised
Payloads ==
    [raises : BOOLEAN,
     last_price : {NoneF, Float(0), Float(5)},
     closes : {<< >>, <<7>>}]

\* the field of the payload _fetch_ltp_sync takes its return value from
PriceField(p) ==
    IF p.raises THEN "none"
    ELSE IF p.last_price.some THEN "last_price"
    ELSE IF p.closes # << >> THEN "Close"
    ELSE "none"

\* yahoo_client._fetch_ltp_sync
fetch_ltp_sync(p) ==
    IF p.raises THEN NoneF
    ELSE IF p.last_price.some THEN p.last_price
    ELSE IF p.closes # << >> THEN Float(p.closes[Len(p.closes)])
    ELSE NoneF

\* ------------------------------------------------------ main.py: handlers
SymbolTtl == 3600
PriceTtl == 0
DefaultMaxItems == 256

Tasks == 1..NumTasks

\* the names and symbols requests arrive with
Names ==
    { <<" ", " ", "T", "C", "S", " ", " ">>,
      <<"t", "c", "s">>,
      <<"Z", "e", "d", " ">> }
Symbols == { <<" ", "t", ".", "n", "s">>, <<"I", ".", "N", "S">> }

\* the clock readings requests are served at
AppTimes == {0, SymbolTtl, SymbolTtl + 1}

\* a response: its status, the detail of a 404, the symbol and the price it
\* carries; candidates is the length of the "quotes" list a search that
\* ended not-found came back with, field the payload field the price was
\* read from, purged whether the cache read of the request popped an entry
NoResp == [endpoint |-> "none", status |-> 0, detail |-> "", symbol |-> None,
           price |-> NoneF, candidates |-> 0, field |-> "none",
           purged |-> FALSE]

\* a request: query and symbol are the handler's locals while it runs,
\* purged whether its symbol_cache.get popped an entry
IdleReq == [pc |-> "idle", endpoint |-> "none", query |-> None,
            symbol |-> None, purged |-> FALSE]
DoneReq == [IdleReq EXCEPT !.pc = "done"]

AppIdle ==
    /\ symbol_cache = << >>
    /\ price_cache = << >>
    /\ req = [t \in Tasks |-> IdleReq]
    /\ resp = NoResp
    /\ searchCalls = 0
    /\ priceSteps = 0
    /\ quoteFetches = 0

StockNotFound == "NSE stock not found"
PriceNotFound == "Price unavailable"

\* raise HTTPException(status_code=404)
NotFound(endpoint) == [NoResp EXCEPT !.endpoint = endpoint, !.status = 404]

\* name.strip() without the lower()
QueryStripOnly(name) == Strip(name)

\* `query = name.strip().lower()`
Query(name) == Lower(Strip(name))

\* return SymbolResponse(symbol=...)
SymbolResponse(symbol) ==
    [NoResp EXCEPT !.endpoint = "search-stock", !.status = 200,
                   !.symbol = symbol]

Free(t) == req[t].pc = "idle"

\* fetch_ltp that looks the symbol up in price_cache before it fetches
FetchLtpCached(symbol) ==
    LET r == CacheGet(price_cache, PriceTtl, now, symbol) IN
    IF r.ret # None
    THEN /\ price_cache' = r.store
         /\ UNCHANGED quoteFetches
    ELSE /\ price_cache' = CacheSet(r.store, DefaultMaxItems, now, symbol,
                                    <<"0">>).store
         /\ quoteFetches' = quoteFetches + 1

\* yahoo_client.fetch_ltp: hands _fetch_ltp_sync to the executor
FetchLtp(symbol) ==
    /\ quoteFetches' = quoteFetches + 1
    /\ UNCHANGED price_cache

\* search_stock up to its first await
SearchStock(t, name) ==
    LET query == Query(name)
        r     == CacheGet(symbol_cache, SymbolTtl, now, query)
    IN
    /\ Free(t)
    /\ symbol_cache' = r.store
    /\ IF Truthy(r.ret)
       THEN /\ req' = [req EXCEPT ![t] = DoneReq]
            /\ resp' = SymbolResponse(r.ret)
            /\ UNCHANGED searchCalls
       ELSE /\ req' = [req EXCEPT ![t] =
                        [pc |-> "search", endpoint |-> "search-stock",
                         query |-> query, symbol |-> None,
                         purged |-> r.purged]]
            /\ searchCalls' = searchCalls + 1
            /\ UNCHANGED resp
    /\ UNCHANGED <<price_cache, priceSteps, quoteFetches, now, cacheVarsRest, nseVars>>

\* get_price up to its await
GetPrice(t, symbol) ==
    LET ticker == Upper(Strip(symbol)) IN
    /\ Free(t)
    /\ priceSteps' = priceSteps + 1
    /\ FetchLtp(ticker)
    /\ req' = [req EXCEPT ![t] =
                [pc |-> "price", endpoint |-> "get-price", query |-> None,
                 symbol |-> ticker, purged |-> FALSE]]
    /\ UNCHANGED <<symbol_cache, resp, searchCalls, now, cacheVarsRest, nseVars>>

\* get_ltp up to its first await: the search on a miss, the price fetch on
\* a hit
GetLtp(t, name) ==
    LET query == Query(name)
        r     == CacheGet(symbol_cache, SymbolTtl, now, query)
    IN
    /\ Free(t)
    /\ symbol_cache' = r.store
    /\ IF Truthy(r.ret)
       THEN /\ priceSteps' = priceSteps + 1
            /\ FetchLtp(r.ret)
            /\ req' = [req EXCEPT ![t] =
                        [pc |-> "price", endpoint |-> "ltp", query |-> query,
                         symbol |-> r.ret, purged |-> FALSE]]
            /\ UNCHANGED searchCalls
       ELSE /\ req' = [req EXCEPT ![t] =
                        [pc |-> "search", endpoint |-> "ltp", query |-> query,
                         symbol |-> None, purged |-> r.purged]]
            /\ searchCalls' = searchCalls + 1
            /\ UNCHANGED <<price_cache, priceSteps, quoteFetches>>
    /\ UNCHANGED <<resp, now, cacheVarsRest, nseVars>>

\* the search returns: search_stock and get_ltp after
\* `await yahoo_client.search_nse_symbol(query)`
SearchDone(t, out) ==
    LET symbol == search_nse_symbol(out) IN
    /\ req[t].pc = "search"
    /\ IF ~Truthy(symbol)
       THEN /\ req' = [req EXCEPT ![t] = DoneReq]
            /\ resp' = [NotFound(req[t].endpoint) EXCEPT
                            !.detail = StockNotFound,
                            !.candidates = Len(out.quotes),
                            !.purged = req[t].purged]
            /\ UNCHANGED <<symbol_cache, price_cache, priceSteps, quoteFetches>>
       ELSE /\ symbol_cache' = CacheSet(symbol_cache, DefaultMaxItems, now,
                                        req[t].query, symbol).store
            /\ IF req[t].endpoint = "search-stock"
               THEN /\ req' = [req EXCEPT ![t] = DoneReq]
                    /\ resp' = SymbolResponse(symbol)
                    /\ UNCHANGED <<price_cache, priceSteps, quoteFetches>>
               ELSE /\ priceSteps' = priceSteps + 1
                    /\ FetchLtp(symbol)
                    /\ req' = [req EXCEPT ![t].pc = "price",
                                          ![t].symbol = symbol,
                                          ![t].purged = FALSE]
                    /\ UNCHANGED resp
    /\ UNCHANGED <<searchCalls, now, cacheVarsRest, nseVars>>

\* a price test that lets a price of zero or below through
PriceIsNone(ltp) == ~ltp.some

\* `if ltp is None or ltp <= 0`
PriceUnavailable(ltp) == ~ltp.some \/ ltp.value <= 0

\* the price fetch returns: get_price and get_ltp after
\* `await yahoo_client.fetch_ltp(...)`
PriceDone(t, payload) ==
    LET ltp == fetch_ltp_sync(payload) IN
    /\ req[t].pc = "price"
    /\ req' = [req EXCEPT ![t] = DoneReq]
    /\ resp' = IF PriceUnavailable(ltp)
               THEN [NotFound(req[t].endpoint) EXCEPT
                        !.detail = PriceNotFound]
               ELSE [NoResp EXCEPT !.endpoint = req[t].endpoint,
                                   !.status = 200,
                                   !.symbol = req[t].symbol,
                                   !.price = ltp,
                                   !.field = PriceField(payload)]
    /\ UNCHANGED <<symbol_cache, price_cache, searchCalls,
                   priceSteps, quoteFetches, now, cacheVarsRest, nseVars>>

\* time.time() moves on between two steps of the event loop
TickApp ==
    /\ \E later \in AppTimes : later > now /\ now' = later
    /\ UNCHANGED <<appVars, cacheVarsRest, nseVars>>

NextApp ==
    \/ \E t \in Tasks, name \in Names : SearchStock(t, name)
    \/ \E t \in Tasks, symbol \in Symbols : GetPrice(t, symbol)
    \/ \E t \in Tasks, name \in Names : GetLtp(t, name)
    \/ \E t \in Tasks, out \in SearchOutcomes : SearchDone(t, out)
    \/ \E t \in Tasks, payload \in Payloads : PriceDone(t, payload)
    \/ TickApp



\* ------------------------------------------- nse_client.py: quote fetches
DotBO == <<".", "B", "O">>

\* str.replace(old, "")
RECURSIVE RemoveAll(_, _)
RemoveAll(s, old) ==
    IF Len(s) < Len(old) THEN s
    ELSE IF SubSeq(s, 1, Len(old)) = old
         THEN RemoveAll(SubSeq(s, Len(old) + 1, Len(s)), old)
         ELSE <<s[1]>> \o RemoveAll(Tail(s), old)

\* clean_symbol
CleanSymbol(symbol) == RemoveAll(RemoveAll(Upper(symbol), DotNS), DotBO)

Fetchers == 1..NumFetches

\* the symbols fetch_nse_price is called with
NseSymbols == { <<"t", "c", "s", ".", "n", "s">>, <<"T", "C", "S", ".", "B", "O">> }

\* the queries nse_client.search_nse_symbol is called with
NseQueries == { <<" ", "t", "c", "s">> }

\* what a quote request ends with: an exception (transport error, or a body
\* that does not parse), a 401, another status that is not 200, or a 200
\* with a priceInfo that has a lastPrice or lacks it
QuoteOutcomes ==
    { [kind |-> "error",  lastPrice |-> NoneF],
      [kind |-> "401",    lastPrice |-> NoneF],
      [kind |-> "status", lastPrice |-> NoneF],
      [kind |-> "ok",     lastPrice |-> NoneF],
      [kind |-> "ok",     lastPrice |-> Float(3456)] }

\* what a search request ends with: an exception, a 401 or another status
\* that is not 200, or a 200 with a "symbols" list
NseSearchOutcomes ==
    { [kind |-> "error",  symbols |-> << >>],
      [kind |-> "401",    symbols |-> << >>],
      [kind |-> "status", symbols |-> << >>],
      [kind |-> "ok",     symbols |-> << >>],
      [kind |-> "ok",     symbols |-> << << >>, <<"t", "c", "s">> >>] }

\* range(3)
Attempts == 3


\* the return value of fetch_nse_price: None, or the dict (symbol and price);
\* of search_nse_symbol: None, or the symbol
NoQuote == [some |-> FALSE, symbol |-> None, price |-> NoneF]

\* a call of fetch_nse_price ("quote") or search_nse_symbol ("search"): its
\* locals (client, attempt), where it stands (boot is the session whose
\* homepage request it awaits, dead whether the request in flight went out
\* on a closed session), how many sessions it has made, and what it has
\* done: the session of every data request it sent, how each ended, every
\* backoff it slept (ms), for every 401 of a quote fetch the session it
\* closed, the session it created and how often it created and bootstrapped
\* one, and whether it ended by raising to its caller
IdleFetch ==
    [pc |-> "idle", call |-> "none", symbol |-> None, client |-> 0,
     attempt |-> 0, made |-> 0, boot |-> 0, dead |-> FALSE, sent |-> << >>,
     outs |-> << >>, sleeps |-> << >>, rebuilds |-> << >>,
     result |-> NoQuote, raised |-> FALSE]

NseIdle ==
    /\ client = 0
    /\ closed = {}
    /\ booting = {}
    /\ fetch = [t \in Fetchers |-> IdleFetch]

InitNse ==
    /\ NseIdle
    /\ AppIdle
    /\ ttl = 0
    /\ max_items = 1
    /\ store = << >>
    /\ now = 0
    /\ lastOp = NoOp
    /\ order = << >>

\* httpx.AsyncClient(...): the session that is the n-th one task t creates
Session(t, n) == 10 * t + n

\* the session task t creates next
NewSession(t) == Session(t, fetch[t].made + 1)

\* `if attempt < 2`: an exception is retried after a sleep
RetryAfterError(attempt) == attempt < 2

\* a backoff of 500 ms whatever the attempt
BackoffFlat(attempt) == 500

\* asyncio.sleep(0.5 * (attempt + 1)), in ms
Backoff(attempt) == 500 * (attempt + 1)

\* `client = await _get_client()`: _get_client returns the global _client
ReturnedClient(local, global) == global

\* the session a call sent its last data request on
LastSent(f) == f.sent[Len(f.sent)]

\* the sessions a quote fetch closed in its 401 branches
ClosedBy(f) == {f.rebuilds[k].closed : k \in 1..Len(f.rebuilds)}

\* try blocks that leave `await _client.aclose()` outside
CaughtButClose(site) == site \in {"bootstrap", "search", "quote"}

\* the awaits that stand inside a `try ... except Exception`: the homepage
\* request of _get_client, the search request, the quote request and the
\* aclose of the 401 branch
Caught(site) == site \in {"bootstrap", "search", "quote", "close"}

\* _get_client up to its await: a session is created when _client is None or
\* closed
NeedsSession == client = 0 \/ client \in closed

\* an exception leaves the call
Raise(f) == [f EXCEPT !.pc = "done", !.result = NoQuote, !.raised = TRUE]

\* the loop body of a loop that makes one pass more
AttemptOneMore(f, n, closedNow) ==
    IF n < Attempts + 1
    THEN [f EXCEPT !.pc = "req", !.attempt = n,
                   !.sent = Append(@, f.client),
                   !.dead = f.client = 0 \/ f.client \in closedNow]
    ELSE [f EXCEPT !.pc = "done", !.attempt = n, !.result = NoQuote]

\* the loop body up to `await client.get(NSE_QUOTE_URL, ...)` for attempt n,
\* or the `return None` after the loop; a closed session raises at once
Attempt(f, n, closedNow) ==
    IF n < Attempts
    THEN [f EXCEPT !.pc = "req", !.attempt = n,
                   !.sent = Append(@, f.client),
                   !.dead = f.client = 0 \/ f.client \in closedNow]
    ELSE [f EXCEPT !.pc = "done", !.attempt = n, !.result = NoQuote]

\* search_nse_symbol up to `await client.get(NSE_SEARCH_URL, ...)`
SearchRequest(f, closedNow) ==
    [f EXCEPT !.pc = "sreq",
              !.sent = Append(@, f.client),
              !.dead = f.client = 0 \/ f.client \in closedNow]

\* the `except Exception` of the loop: a sleep and the next attempt while
\* attempt < 2, `return None` at the last attempt
OnError(f) ==
    IF RetryAfterError(f.attempt)
    THEN [f EXCEPT !.pc = "sleep", !.sleeps = Append(@, Backoff(f.attempt))]
    ELSE [f EXCEPT !.pc = "done", !.result = NoQuote]

\* a status that is not 200 handled as an exception is
OnStatusRetry(f) == OnError(f)

\* `if resp.status_code != 200: return None`
OnStatus(f) == [f EXCEPT !.pc = "done", !.result = NoQuote]

\* the first truthy `item.get("symbol", "").upper()` of the list, or None
FirstSymbol(symbols) ==
    LET hits == {i \in 1..Len(symbols) : Truthy(Upper(symbols[i]))} IN
    IF hits = {} THEN NoQuote
    ELSE [some |-> TRUE,
          symbol |-> Upper(symbols[CHOOSE i \in hits : \A j \in hits : i <= j]),
          price |-> NoneF]

\* fetch_nse_price up to its first await: the bootstrap of a new session, or
\* the first quote request on the session at hand
FetchStart(t, symbol) ==
    LET f == [fetch[t] EXCEPT !.call = "quote",
                              !.symbol = CleanSymbol(symbol)] IN
    /\ fetch[t].pc = "idle"
    /\ IF NeedsSession
       THEN /\ client' = NewSession(t)
            /\ booting' = booting \cup {NewSession(t)}
            /\ fetch' = [fetch EXCEPT ![t] =
                            [f EXCEPT !.pc = "boot", !.boot = NewSession(t),
                                      !.made = @ + 1]]
            /\ UNCHANGED closed
       ELSE /\ fetch' = [fetch EXCEPT ![t] =
                            Attempt([f EXCEPT !.client = client], 0, closed)]
            /\ UNCHANGED <<client, closed, booting>>
    /\ UNCHANGED <<cacheVars, appVars>>

\* search_nse_symbol up to its first await: the bootstrap of a new session,
\* or the search request on the session at hand
NseSearchStart(t, query) ==
    LET f == [fetch[t] EXCEPT !.call = "search",
                              !.symbol = Upper(Strip(query))] IN
    /\ fetch[t].pc = "idle"
    /\ IF NeedsSession
       THEN /\ client' = NewSession(t)
            /\ booting' = booting \cup {NewSession(t)}
            /\ fetch' = [fetch EXCEPT ![t] =
                            [f EXCEPT !.pc = "boot", !.boot = NewSession(t),
                                      !.made = @ + 1]]
            /\ UNCHANGED closed
       ELSE /\ fetch' = [fetch EXCEPT ![t] =
                            SearchRequest([f EXCEPT !.client = client], closed)]
            /\ UNCHANGED <<client, closed, booting>>
    /\ UNCHANGED <<cacheVars, appVars>>

\* the homepage request of _get_client returns, or raises and is passed
\* over; _get_client returns _client and the caller goes on: the search
\* with its request, the quote fetch with the attempt that is due
BootDone(t, ok) ==
    LET f == fetch[t]
        g == [f EXCEPT !.client = ReturnedClient(f.client, client),
                       !.boot = 0,
                       !.rebuilds = IF @ = << >> THEN @
                                    ELSE [@ EXCEPT ![Len(@)].boots = @ + 1]]
    IN
    /\ f.pc = "boot"
    /\ booting' = booting \ {f.boot}
    /\ fetch' = [fetch EXCEPT ![t] =
                    IF ~ok /\ ~Caught("bootstrap") THEN Raise(g)
                    ELSE IF f.call = "search" THEN SearchRequest(g, closed)
                    ELSE Attempt(g, f.attempt, closed)]
    /\ UNCHANGED <<client, closed, cacheVars, appVars>>

\* the quote request returns or raises
Resp(t, out) ==
    LET f == [fetch[t] EXCEPT !.outs = Append(@, out.kind)] IN
    /\ fetch[t].pc = "req"
    /\ fetch[t].dead => out.kind = "error"
    /\ CASE out.kind = "401" ->
              \* `if _client: await _client.aclose()`, else straight on to
              \* `_client = None; client = await _get_client()`
              IF client # 0
              THEN /\ closed' = closed \cup {client}
                   /\ fetch' = [fetch EXCEPT ![t] =
                        [f EXCEPT !.pc = "close",
                                  !.rebuilds = Append(@,
                                      [closed |-> client, created |-> 0,
                                       creates |-> 0, boots |-> 0])]]
                   /\ UNCHANGED <<client, booting>>
              ELSE /\ client' = NewSession(t)
                   /\ booting' = booting \cup {NewSession(t)}
                   /\ fetch' = [fetch EXCEPT ![t] =
                        [f EXCEPT !.pc = "boot", !.boot = NewSession(t),
                                  !.made = @ + 1, !.attempt = @ + 1,
                                  !.rebuilds = Append(@,
                                      [closed |-> 0, created |-> NewSession(t),
                                       creates |-> 1, boots |-> 0])]]
                   /\ UNCHANGED closed
         [] out.kind = "status" ->
              /\ fetch' = [fetch EXCEPT ![t] = OnStatus(f)]
              /\ UNCHANGED <<client, closed, booting>>
         [] out.kind = "ok" ->
              /\ fetch' = [fetch EXCEPT ![t] =
                    [f EXCEPT !.pc = "done",
                              !.result = [some |-> TRUE,
                                          symbol |-> f.symbol \o DotNS,
                                          price |-> out.lastPrice]]]
              /\ UNCHANGED <<client, closed, booting>>
         [] out.kind = "error" ->
              /\ fetch' = [fetch EXCEPT ![t] =
                              IF Caught("quote") THEN OnError(f) ELSE Raise(f)]
              /\ UNCHANGED <<client, closed, booting>>
    /\ UNCHANGED <<cacheVars, appVars>>

\* the search request returns or raises
NseSearchResp(t, out) ==
    LET f == [fetch[t] EXCEPT !.outs = Append(@, out.kind)] IN
    /\ fetch[t].pc = "sreq"
    /\ fetch[t].dead => out.kind = "error"
    /\ fetch' = [fetch EXCEPT ![t] =
                    IF out.kind = "error"
                    THEN IF Caught("search") THEN OnStatus(f) ELSE Raise(f)
                    ELSE IF out.kind # "ok" THEN OnStatus(f)
                    ELSE [f EXCEPT !.pc = "done",
                                   !.result = FirstSymbol(out.symbols)]]
    /\ UNCHANGED <<client, closed, booting, cacheVars, appVars>>

\* aclose returns: `_client = None`, then _get_client creates a session and
\* awaits its homepage request. aclose raises: the `except Exception` of
\* the loop takes over and _client stays the closed session
CloseDone(t, ok) ==
    /\ fetch[t].pc = "close"
    /\ IF ok
       THEN /\ client' = NewSession(t)
            /\ booting' = booting \cup {NewSession(t)}
            /\ fetch' = [fetch EXCEPT ![t] =
                    [@ EXCEPT !.pc = "boot", !.boot = NewSession(t),
                              !.made = @ + 1, !.attempt = @ + 1,
                              !.rebuilds =
                                  [@ EXCEPT ![Len(@)].created = NewSession(t),
                                            ![Len(@)].creates = @ + 1]]]
       ELSE /\ fetch' = [fetch EXCEPT ![t] =
                    IF Caught("close") THEN OnError(@) ELSE Raise(@)]
            /\ UNCHANGED <<client, booting>>
    /\ UNCHANGED <<closed, cacheVars, appVars>>

\* asyncio.sleep returns: `continue` with the next attempt
SleepDone(t) ==
    /\ fetch[t].pc = "sleep"
    /\ fetch' = [fetch EXCEPT ![t] = Attempt(@, @.attempt + 1, closed)]
    /\ UNCHANGED <<client, closed, booting, cacheVars, appVars>>

NextNse ==
    \/ \E t \in Fetchers, symbol \in NseSymbols : FetchStart(t, symbol)
    \/ \E t \in Fetchers, query \in NseQueries : NseSearchStart(t, query)
    \/ \E t \in Fetchers, ok \in BOOLEAN : BootDone(t, ok)
    \/ \E t \in Fetchers, out \in QuoteOutcomes : Resp(t, out)
    \/ \E t \in Fetchers, out \in NseSearchOutcomes : NseSearchResp(t, out)
    \/ \E t \in Fetchers, ok \in BOOLEAN : CloseDone(t, ok)
    \/ \E t \in Fetchers : SleepDone(t)

SpecNse == InitNse /\ [][NextNse]_vars

\* every await of a call returns in the end: the requests, aclose and the
\* sleep each complete or time out
FairNse ==
    \A t \in Fetchers :
        /\ WF_vars(\E ok \in BOOLEAN : BootDone(t, ok))
        /\ WF_vars(\E out \in QuoteOutcomes : Resp(t, out))
        /\ WF_vars(\E out \in NseSearchOutcomes : NseSearchResp(t, out))
        /\ WF_vars(\E ok \in BOOLEAN : CloseDone(t, ok))
        /\ WF_vars(SleepDone(t))

SpecNseLive == InitNse /\ [][NextNse]_vars /\ FairNse

\* ------------------------------------------ orchestrator specification
InitApp ==
    /\ AppIdle
    /\ NseIdle
    /\ ttl = SymbolTtl
    /\ max_items = DefaultMaxItems
    /\ store = << >>
    /\ now = 0
    /\ lastOp = NoOp
    /\ order = << >>

SpecApp == InitApp /\ [][NextApp]_vars

\* ------------------------------------------------- cache specification
InitCache ==
    /\ ttl \in 0..MaxTtl
    /\ max_items \in 1..MaxItems
    /\ store = << >>
    /\ now = 0
    /\ lastOp = NoOp
    /\ order = << >>
    /\ AppIdle
    /\ NseIdle

\* the keys in entry order after key k left the store
Without(o, k) == SelectSeq(o, LAMBDA x : x # k)

Get(k) ==
    LET r == CacheGet(store, ttl, now, k) IN
    /\ store' = r.store
    /\ lastOp' = [NoOp EXCEPT !.op = "get", !.key = k, !.ret = r.ret,
                              !.purged = r.purged]
    /\ order' = IF r.purged THEN Without(order, k) ELSE order
    /\ UNCHANGED <<ttl, max_items, now, appVars, nseVars>>

Set(k, v) ==
    LET r    == CacheSet(store, max_items, now, k, v)
        left == IF r.evicted = None THEN order ELSE Without(order, r.evicted)
    IN
    /\ store' = r.store
    /\ lastOp' = [NoOp EXCEPT !.op = "set", !.key = k, !.value = v,
                              !.evicted = r.evicted]
    /\ order' = IF k \in {left[i] : i \in 1..Len(left)}
                THEN left ELSE Append(left, k)
    /\ UNCHANGED <<ttl, max_items, now, appVars, nseVars>>

\* time.time() moves on between two calls
Tick ==
    /\ now < MaxTime
    /\ now' = now + 1
    /\ lastOp' = [NoOp EXCEPT !.op = "tick"]
    /\ UNCHANGED <<ttl, max_items, store, order, appVars, nseVars>>

NextCache ==
    \/ \E k \in Keys : Get(k)
    \/ \E k \in Keys, v \in Values : Set(k, v)
    \/ Tick

SpecCache == InitCache /\ [][NextCache]_vars

\* ------------------------------------------------------- claims: cache
\* C1: for max_items >= 1 the store never holds more than max_items entries,
\* whatever sets, gets and clock values came before.
C1_Capacity == max_items >= 1 => Len(store) <= max_items

\* a set on a full store evicted an entry and the store is at capacity again
C1_Witness ==
    /\ lastOp.op = "set"
    /\ lastOp.evicted # None
    /\ Len(store) = max_items

\* C2: the key a set evicts is the key that entered the store earliest among
\* the keys in it, and a get hit moves no key in the store.
C2_FifoEviction ==
    [][ /\ (lastOp'.op = "set" /\ lastOp'.evicted # None)
            => (Len(order) > 0 /\ lastOp'.evicted = Head(order))
        /\ (lastOp'.op = "get" /\ lastOp'.ret # None) => store' = store
      ]_vars

\* a set evicted one of two entries while inserting a third key
C2_Witness ==
    /\ lastOp.op = "set"
    /\ lastOp.evicted # None
    /\ lastOp.evicted # lastOp.key
    /\ Len(store) >= 2

\* C3: a get of an entry older than ttl returns None and removes the entry;
\* a get that returns a value returns the stored value of an entry whose age
\* is at most ttl.
C3_Expiry ==
    [][ lastOp'.op = "get" =>
          LET k == lastOp'.key IN
          /\ (Has(store, k) /\ now - Lookup(store, k).ts > ttl)
                => (lastOp'.ret = None /\ ~Has(store', k))
          /\ lastOp'.ret # None
                => /\ Has(store, k)
                   /\ now - Lookup(store, k).ts <= ttl
                   /\ lastOp'.ret = Lookup(store, k).value
      ]_vars

\* a get found a stale entry, returned None and popped it
C3_Witness ==
    /\ lastOp.op = "get"
    /\ lastOp.ret = None
    /\ lastOp.purged
    /\ ~Has(store, lastOp.key)

\* C4: with ttl = 0 the get that directly follows a set of the same key
\* returns None, also at the clock value of the set.
C4_ZeroTtlReadsAbsent ==
    [][ (ttl = 0 /\ lastOp.op = "set" /\ lastOp'.op = "get"
            /\ lastOp'.key = lastOp.key)
        => lastOp'.ret = None ]_vars

\* C5: a set of a key that is already in a full store evicts nothing: every
\* key present before the call is present after it.
C5_OverwriteEvictsNothing ==
    [][ (lastOp'.op = "set" /\ Has(store, lastOp'.key)
            /\ Len(store) = max_items)
        => StoreKeys(store) \subseteq StoreKeys(store')
      ]_vars

\* the timestamps of the store do not decrease from the head on
TsInOrder(s) == \A i, j \in 1..Len(s) : i <= j => s[i].ts <= s[j].ts

\* the call is a set that wrote over an entry where it stood
OverwritesInPlace ==
    /\ lastOp'.op = "set"
    /\ Has(store, lastOp'.key)
    /\ lastOp'.evicted # lastOp'.key
    /\ IndexOf(store', lastOp'.key) < Len(store')

\* C20 as stated: the entry a set evicts has the smallest timestamp of all
\* entries in the store at the call.
C20_EvictsSmallestTs ==
    [][ lastOp'.evicted # None =>
            \A i \in 1..Len(store) :
                Lookup(store, lastOp'.evicted).ts <= store[i].ts
      ]_vars

\* C20, amended: the entry a set evicts is the head of the store, the key
\* that entered it earliest; it has the smallest timestamp of the store as
\* long as the timestamps are in store order, and they leave that order
\* only when a set writes over an entry that is not the last one, which
\* renews the timestamp where the entry stands.
C20_EvictsHead ==
    [][ /\ lastOp'.evicted # None =>
              /\ lastOp'.evicted = Head(store).key
              /\ lastOp'.evicted = Head(order)
              /\ TsInOrder(store) =>
                    \A i \in 1..Len(store) : Head(store).ts <= store[i].ts
        /\ (TsInOrder(store) /\ ~TsInOrder(store')) => OverwritesInPlace
      ]_vars

\* a set on a full store evicted the head and wrote over an entry behind
\* it in place: the timestamps of the store are out of store order
C20_Witness ==
    /\ lastOp.op = "set"
    /\ lastOp.evicted # None
    /\ lastOp.evicted # lastOp.key
    /\ Len(store) >= 2
    /\ ~TsInOrder(store)

\* ------------------------------------------------ claims: orchestrator
\* C6: a name whose trimmed, lower-cased form is a key of the alias table is
\* resolved without a network search: no request for such a name is ever
\* waiting on yahoo_client.search_nse_symbol.
C6_AliasNeverSearches ==
    \A t \in Tasks :
        req[t].pc = "search" => req[t].query \notin DOMAIN COMMON_NAMES_TO_SYMBOL

\* the candidate a symbol came from is an NSE equity with the .NS suffix
FromNseEquity(symbol) ==
    /\ EndsWith(symbol, DotNS)
    /\ \E q \in Quotes : q.symbol = symbol
    /\ \A q \in Quotes :
          q.symbol = symbol => q.exchange = "NSI" /\ q.quoteType = "EQUITY"

\* C7: every symbol that symbol resolution returns, fresh or from the cache,
\* and every value in the symbol cache came from a candidate with exchange
\* "NSI", quoteType "EQUITY" and a symbol ending in ".NS".
C7_ExchangeFilter ==
    /\ \A i \in 1..Len(symbol_cache) : FromNseEquity(symbol_cache[i].value)
    /\ (resp.endpoint \in {"search-stock", "ltp"} /\ resp.status = 200)
          => FromNseEquity(resp.symbol)
    /\ \A t \in Tasks :
          (req[t].endpoint = "ltp" /\ req[t].pc = "price")
              => FromNseEquity(req[t].symbol)

\* a search came back with a single candidate and was answered not-found,
\* while the symbol another search resolved is in the cache
C7_Witness ==
    /\ resp.endpoint = "search-stock"
    /\ resp.status = 404
    /\ resp.candidates = 1
    /\ Len(symbol_cache) > 0

\* C8: every request that reaches its price step starts one upstream quote
\* fetch, and the price path neither reads nor writes a cache: price_cache
\* stays empty, and neither starting /get-price nor the return of a fetch
\* changes a cache.
C8_NoStalePrice ==
    /\ [](quoteFetches = priceSteps /\ price_cache = << >>)
    /\ [][ \A t \in Tasks :
              \/ (req[t].pc = "price" /\ req'[t].pc = "done")
              \/ (req'[t] # req[t] /\ req'[t].endpoint = "get-price")
              => symbol_cache' = symbol_cache /\ price_cache' = price_cache
         ]_vars

\* two price requests for one symbol are in flight at once, each with its
\* own upstream fetch
C8_Witness ==
    /\ req[1].pc = "price"
    /\ req[2].pc = "price"
    /\ req[1].symbol = req[2].symbol
    /\ priceSteps = 2
    /\ quoteFetches = 2

C14_CanonicalPriceField ==
    (resp.status = 200 /\ resp.price.some) => resp.field = "last_price"

\* the entries of the symbol cache
Entries(s) == {s[i] : i \in 1..Len(s)}

\* a resolution of task t ends with this step in not-found
EndsNotFound(t) ==
    /\ req[t].pc = "search"
    /\ req'[t].pc = "done"
    /\ resp'.status = 404
    /\ resp'.detail = StockNotFound

\* a resolution of task t that went to the network ends with this step in
\* the symbol it found
EndsResolved(t) ==
    /\ req[t].pc = "search"
    /\ \/ /\ req'[t].pc = "done"
          /\ resp'.status = 200
          /\ Has(symbol_cache', req[t].query)
          /\ Lookup(symbol_cache', req[t].query).value = resp'.symbol
       \/ /\ req'[t].pc = "price"
          /\ Has(symbol_cache', req[t].query)
          /\ Lookup(symbol_cache', req[t].query).value = req'[t].symbol

\* C17 as stated: a resolution that ends in not-found has left the symbol
\* cache as it was, its cache read included.
C17_NotFoundLeavesCache ==
    (resp.status = 404 /\ resp.detail = StockNotFound) => ~resp.purged

\* C17, amended: the step that ends a resolution in not-found leaves the
\* symbol cache unchanged and no resolution that ends so adds or alters an
\* entry: an entry appears or changes only in the step in which a network
\* resolution succeeds, which stores query -> symbol before the symbol is
\* handed on; the one other change is the cache read of a starting request
\* popping entries older than the ttl.
C17_CacheWrites ==
    [][ /\ \A t \in Tasks : EndsNotFound(t) => symbol_cache' = symbol_cache
        /\ \A t \in Tasks :
              (req[t].pc = "search" /\ req'[t].pc # "search"
                  /\ ~EndsNotFound(t)) => EndsResolved(t)
        /\ \A e \in Entries(symbol_cache') \ Entries(symbol_cache) :
              \E t \in Tasks : EndsResolved(t) /\ e.key = req[t].query
        /\ \A e \in Entries(symbol_cache) \ Entries(symbol_cache') :
              \/ \E t \in Tasks : EndsResolved(t) /\ e.key = req[t].query
              \/ /\ now - e.ts > SymbolTtl
                 /\ \E t \in Tasks : req[t].pc = "idle" /\ req'[t].pc # "idle"
      ]_vars

\* a name was resolved and cached; a later resolution of it popped the
\* expired entry, searched again and ended in not-found with an empty cache
C17_Witness ==
    /\ resp.status = 404
    /\ resp.detail = StockNotFound
    /\ resp.purged
    /\ symbol_cache = << >>
    /\ searchCalls = 2

\* the symbol cache holds an entry for the key that is not older than the ttl
Cached(q) ==
    Has(symbol_cache, q) /\ now - Lookup(symbol_cache, q).ts <= SymbolTtl

\* C18: a resolution of a name whose trimmed, lower-cased form has an entry
\* in the symbol cache that is not older than the ttl uses the symbol of the
\* entry, sends no search and leaves the cache as it is.
C18_CacheHit ==
    [][ \A t \in Tasks, name \in Names :
            LET q == Lower(Strip(name)) IN
            (req[t].pc = "idle" /\ req'[t].pc # "idle" /\ Cached(q)) =>
               /\ SearchStock(t, name) =>
                     /\ req'[t].pc = "done"
                     /\ resp' = SymbolResponse(Lookup(symbol_cache, q).value)
                     /\ searchCalls' = searchCalls
                     /\ symbol_cache' = symbol_cache
               /\ GetLtp(t, name) =>
                     /\ req'[t].pc = "price"
                     /\ req'[t].symbol = Lookup(symbol_cache, q).value
                     /\ searchCalls' = searchCalls
                     /\ symbol_cache' = symbol_cache
      ]_vars

\* two /search-stock requests were answered, the second from the cache at
\* the very age of the ttl: one search was sent
C18_Witness ==
    /\ \A t \in Tasks : req[t].pc = "done"
    /\ resp.endpoint = "search-stock"
    /\ resp.status = 200
    /\ searchCalls = 1
    /\ quoteFetches = 0
    /\ now = SymbolTtl
    /\ Len(symbol_cache) = 1
    /\ symbol_cache[1].ts = 0

\* ------------------------------------------------ claims: quote client
\* every quote request of the fetch so far ended in an exception
AllErrors(f) == f.outs # << >> /\ \A i \in 1..Len(f.outs) : f.outs[i] = "error"

\* C9: a fetch whose every quote request raises sends exactly 3 requests,
\* sleeps 500 ms after the first failure and 1000 ms after the second, does
\* not sleep after the third, and returns None.
C9_RetryBound ==
    \A t \in Fetchers :
        LET f == fetch[t] IN
        (f.call = "quote" /\ AllErrors(f)) =>
            /\ Len(f.sent) <= 3
            /\ f.sleeps = SubSeq(<<500, 1000>>, 1,
                                 IF Len(f.outs) < 2 THEN Len(f.outs) ELSE 2)
            /\ Len(f.outs) = 3 <=> f.pc = "done"
            /\ f.pc = "done" => Len(f.sent) = 3 /\ ~f.result.some

\* a fetch has returned after three failed requests
C9_Witness ==
    \E t \in Fetchers :
        /\ fetch[t].call = "quote"
        /\ fetch[t].pc = "done"
        /\ fetch[t].outs = <<"error", "error", "error">>

\* the attempts of the fetch that were answered 401, in order
Attempts401(f) ==
    SelectSeq([i \in 1..Len(f.outs) |-> i], LAMBDA i : f.outs[i] = "401")

\* no other fetch was ever started
Alone(t) == \A u \in Fetchers \ {t} : fetch[u].pc = "idle"

\* C10: within one quote fetch every 401 causes exactly one session rebuild:
\* the session in _client is closed, one session is created and bootstrapped
\* once; the next quote request of the fetch goes out neither on the closed
\* session nor on the session that answered 401, and, when no other call
\* runs, on the very session the rebuild created, the closed session being
\* the one that answered 401.
C10_SessionRecovery ==
    \A t \in Fetchers :
        LET f == fetch[t]
            at == Attempts401(f)
        IN
        f.call = "quote" =>
        /\ Len(f.rebuilds) = Len(at)
        /\ \A k \in 1..Len(f.rebuilds) :
              LET r == f.rebuilds[k]
                  i == at[k]
              IN
              (k < Len(f.rebuilds) \/ f.pc \notin {"close", "boot"}) =>
                  /\ r.creates = 1
                  /\ r.boots = 1
                  /\ r.closed \in closed
                  /\ r.created # r.closed
                  /\ Len(f.sent) > i =>
                        /\ f.sent[i + 1] # r.closed
                        /\ f.sent[i + 1] # f.sent[i]
                  /\ Alone(t) =>
                        /\ r.closed = f.sent[i]
                        /\ Len(f.sent) > i => f.sent[i + 1] = r.created

\* a call has returned
Returned(f) == f.pc = "done" /\ ~f.raised

\* C12: whatever the homepage, search, quote and aclose awaits end with,
\* search_nse_symbol and fetch_nse_price never raise to their caller: a call
\* that is over has returned None or a value.
C12_NoRaise ==
    \A t \in Fetchers :
        /\ ~fetch[t].raised
        /\ fetch[t].pc = "done" =>
              \/ fetch[t].result = NoQuote
              \/ fetch[t].result.some /\ fetch[t].result.symbol # None

\* a quote fetch whose aclose raised has returned None, and a search whose
\* request raised has returned None
C12_Witness ==
    \E t, u \in Fetchers :
        /\ fetch[t].call = "quote"
        /\ Returned(fetch[t])
        /\ \E k \in 1..Len(fetch[t].rebuilds) :
              fetch[t].rebuilds[k].creates = 0
        /\ fetch[t].result = NoQuote
        /\ fetch[u].call = "search"
        /\ Returned(fetch[u])
        /\ fetch[u].outs = <<"error">>
        /\ fetch[u].result = NoQuote

\* C13: no quote fetch sends a request on a session that another call has
\* closed: a request that goes out on a closed session goes out on a
\* session the fetch closed itself.
C13_NoSendOnInvalidated ==
    \A t \in Fetchers :
        LET f == fetch[t] IN
        (f.call = "quote" /\ f.pc = "req" /\ f.dead)
            => LastSent(f) \in ClosedBy(f)

\* C15: a quote fetch never sends more than 3 quote requests, a fetch that
\* was answered 401 three times has sent exactly 3 requests and returns
\* None, and every call that was started returns.
C15_AttemptBudget ==
    /\ [](\A t \in Fetchers :
            LET f == fetch[t] IN
            f.call = "quote" =>
                /\ Len(f.sent) <= 3
                /\ f.outs = <<"401", "401", "401">> =>
                      /\ Len(f.sent) = 3
                      /\ f.pc = "done" => f.result = NoQuote)
    /\ \A t \in Fetchers :
          (fetch[t].pc # "idle") ~> Returned(fetch[t])

\* a quote fetch has returned after three 401 answers
C15_Witness ==
    \E t \in Fetchers :
        /\ fetch[t].call = "quote"
        /\ Returned(fetch[t])
        /\ fetch[t].outs = <<"401", "401", "401">>
        /\ Len(fetch[t].sent) = 3

\* C16: a quote request answered with a status other than 200 and 401 ends
\* the fetch at once with None: no further request, no sleep, no rebuild,
\* and _client and the sessions stay as they are; a search sends one
\* request, never sleeps or rebuilds, and returns None unless the answer
\* was a 200.
C16_NoRetryOnStatus ==
    /\ [](\A t \in Fetchers :
            LET f == fetch[t] IN
            f.call = "search" =>
                /\ Len(f.sent) <= 1
                /\ f.sleeps = << >>
                /\ f.rebuilds = << >>
                /\ f.pc \in {"idle", "boot", "sreq", "done"}
                /\ f.pc = "done" =>
                      /\ Len(f.sent) = 1
                      /\ f.outs # <<"ok">> => f.result = NoQuote)
    /\ [][ \A t \in Fetchers :
              (/\ fetch[t].pc = "req"
               /\ fetch'[t].outs = Append(fetch[t].outs, "status"))
              => /\ fetch'[t].pc = "done"
                 /\ fetch'[t].result = NoQuote
                 /\ fetch'[t].sent = fetch[t].sent
                 /\ fetch'[t].sleeps = fetch[t].sleeps
                 /\ fetch'[t].rebuilds = fetch[t].rebuilds
                 /\ client' = client
                 /\ closed' = closed
                 /\ booting' = booting
         ]_vars

\* a quote fetch ended on a status after an earlier retry, and a search
\* ended on a 401 without a rebuild
C16_Witness ==
    \E t, u \in Fetchers :
        /\ fetch[t].call = "quote"
        /\ fetch[t].pc = "done"
        /\ fetch[t].outs = <<"error", "status">>
        /\ fetch[t].sleeps = <<500>>
        /\ fetch[u].call = "search"
        /\ fetch[u].pc = "done"
        /\ fetch[u].outs = <<"401">>
        /\ client \notin closed

\* C19: no search or quote request is in flight on a session whose homepage
\* request has not come back yet.
C19_NoRequestWhileBootstrapping ==
    \A t \in Fetchers :
        fetch[t].pc \in {"req", "sreq"} => LastSent(fetch[t]) \notin booting

====
